---------------------------- MODULE Spec2Model ----------------------------
(***************************************************************************)
(* Deal discovery and notification pipeline of AmznPriceErrorsCA.          *)
(*                                                                         *)
(* The three programs of the repository are modelled over the same         *)
(* variables, each with its own specification, and is_new_deal on its own: *)
(*   SpecSeen   - is_new_deal of bot.py / scrape_and_notify.py, called     *)
(*                repeatedly on one seen.json                              *)
(*   SpecBot    - bot.py: scrape_command and job_callback interleaved at   *)
(*                their await points                                       *)
(*   SpecNotify - scrape_and_notify.py: run_and_notify                     *)
(*   SpecFull   - bot_full.py: scrape_manual, job_subscriptions,           *)
(*                job_alerts                                               *)
(*   SpecExtract - the extraction of one listing page by each program      *)
(*   SpecUrls   - get_category_urls of bot_full.py / scrape_and_notify.py  *)
(*   SpecChat   - bot_full.py: the search, subscribe, unsubscribe and      *)
(*                alert conversation handlers, each call in two parts:     *)
(*                up to its first await, and from there to its end         *)
(*   SpecTables - bot_full.py: the handlers that write the tables, next to *)
(*                scrape_manual and the jobs                               *)
(*   SpecConv   - bot_full.py: the four ConversationHandlers dispatching   *)
(*                button presses and text messages of the chats            *)
(*   SpecCycles - the cycles of bot.py and of bot_full.py (SpecBot and     *)
(*                SpecFull side by side)                                   *)
(* Prices are integers in cents.                                           *)
(***************************************************************************)
EXTENDS Integers, Sequences, FiniteSets, TLC

VARIABLES
    program,    \* which program owns the behaviour: "bot", "notify", "full"
    admin,      \* ADMIN_USERNAME of the environment (None: unset)
    store,      \* seen.json: [kind, links, readable]
    store0,     \* history: seen.json at start
    subs,       \* subscriptions.json: [kind, tab] tab: uid -> (cat -> min_discount)
    alerts,     \* alerts.json: [kind, tab] tab: uid -> (item -> min_drop)
    site,       \* what the retail site answers: [home, pages, product]
    pc,         \* per handler / job: its position
    deals,      \* per handler / job: the list scrape_deals returned;
                \* for "chat": the callback suspended at an await
    idx,        \* per handler / job: index of the deal being handled;
                \* for "chat": the awaits left before the callback returns
    work,       \* per handler / job: the remaining (uid, key, threshold) items;
                \* for "chat": per ConversationHandler its open conversations
    seenMem,    \* scrape_manual's in-memory copy of the seen links
    runs,       \* per handler / job: number of cycles started
    sent,       \* send attempts so far: sequence of [by, to, link, run]
    hist        \* log of calls (SpecSeen, SpecExtract, SpecUrls); the last
                \* handler call that ended (SpecChat, SpecTables, SpecConv)

vars == <<program, admin, store, store0, subs, alerts, site, pc, deals, idx, work,
          seenMem, runs, sent, hist>>

-----------------------------------------------------------------------------
(* Bounds *)

MaxCalls == 3       \* calls of one behaviour of SpecSeen, SpecUrls, SpecConv
MaxLocators == 2    \* listing pages of one aggregation
MaxRuns == 2        \* cycles (and, in SpecChat and SpecTables, handler calls)
                       \* started

-----------------------------------------------------------------------------
(* Values *)

None == "None"

AFFILIATE_TAG == "amznerrorsca-20"
CHANNEL_ID == "@AmznErrorsCA"

Asins == {"ABC123", "XYZ999"}

\* f"https://www.amazon.ca/dp/{asin}?tag={AFFILIATE_TAG}"
LinkOf(asin) == <<"https://www.amazon.ca/dp/", asin, "?tag=", AFFILIATE_TAG>>

Links == {LinkOf(a) : a \in Asins}

Range(s) == {s[i] : i \in 1..Len(s)}

-----------------------------------------------------------------------------
(* seen.json                                                               *)
(* kind: "missing"  no file                                                *)
(*       "corrupt"  not valid JSON                                         *)
(*       "list"     a JSON array of links          (written by bot.py)     *)
(*       "dict"     a JSON object {"links": [..]}  (written by the others) *)
(*       "nolinks"  a JSON object without the key "links"                  *)
(* readable: the file can be opened for reading (it can always be written) *)

StoreFile(kind, links, readable) ==
    [kind |-> kind, links |-> links, readable |-> readable]

MissingStore == StoreFile("missing", <<>>, TRUE)

LinkLists ==
    {<<>>} \cup {<<l>> : l \in Links}
           \cup {p \in {<<l, m>> : l \in Links, m \in Links} : p[1] # p[2]}

StoreContents ==
    {MissingStore}
    \cup {StoreFile("corrupt", <<>>, TRUE), StoreFile("nolinks", <<>>, TRUE)}
    \cup {StoreFile(k, ls, TRUE) : k \in {"list", "dict"}, ls \in LinkLists}
    \cup {StoreFile(k, ls, FALSE) : k \in {"list", "dict"},
                                    ls \in {<<l>> : l \in Links}}

\* the links the file holds on disk
StoreLinks(st) == IF st.kind \in {"list", "dict"} THEN Range(st.links) ELSE {}

\* json.dump(value, open(SEEN_FILE, "w")): a missing file is created readable
WriteStore(st, kind, links) ==
    StoreFile(kind, links, IF st.kind = "missing" THEN TRUE ELSE st.readable)

Ret(r, st) == [ret |-> r, store |-> st]

\* is_new_deal without its json.dump: the link is reported new, never saved
BotIsNewDealNoDump(st, link) ==
    IF st.kind # "missing" /\ ~st.readable
    THEN Ret("raise", st)
    ELSE IF st.kind \in {"dict", "nolinks"}
    THEN Ret("raise", st)
    ELSE LET seen == IF st.kind = "list" THEN st.links ELSE <<>>
         IN  IF link \in Range(seen)
             THEN Ret("false", st)
             ELSE Ret("true", st)

\* bot.py is_new_deal: only FileNotFoundError and JSONDecodeError are caught
BotIsNewDeal(st, link) ==
    IF st.kind # "missing" /\ ~st.readable
    THEN Ret("raise", st)                       \* PermissionError
    ELSE IF st.kind \in {"dict", "nolinks"}
    THEN Ret("raise", st)                       \* dict has no append
    ELSE LET seen == IF st.kind = "list" THEN st.links ELSE <<>>
         IN  IF link \in Range(seen)
             THEN Ret("false", st)
             ELSE Ret("true", WriteStore(st, "list", Append(seen, link)))

\* scrape_and_notify.py load_seen: a bare except gives {"links": []}
SanLoadSeen(st) ==
    IF st.kind = "missing" \/ ~st.readable \/ st.kind = "corrupt"
    THEN [kind |-> "dict", links |-> <<>>]
    ELSE [kind |-> st.kind, links |-> st.links]

\* scrape_and_notify.py is_new_deal / save_seen
SanIsNewDeal(st, link) ==
    LET seen == SanLoadSeen(st)
    IN  IF seen.kind # "dict"
        THEN Ret("raise", st)                   \* TypeError / KeyError
        ELSE IF link \in Range(seen.links)
        THEN Ret("false", st)
        ELSE Ret("true", WriteStore(st, "dict", Append(seen.links, link)))

-----------------------------------------------------------------------------
(* Listing pages and extraction                                            *)
(* A result block: title, whole (sale price, whole dollars), frac (cents   *)
(* of the sale price), orig (the "was" price, in cents), asin (the path    *)
(* segment after /dp/ of the detail link).  A title or asin is None where  *)
(* the node is absent; a price field is Absent where the node is absent    *)
(* and Bad where its text is no number.                                    *)

Absent == 0 - 1
Bad == 0 - 2
\* what requests.get(url) gives: the page's result blocks, or an exception
Fetched(blocks) == [ok |-> TRUE, blocks |-> blocks]
FetchFail == [ok |-> FALSE, blocks |-> <<>>]

Block(title, whole, frac, orig, asin) ==
    [title |-> title, whole |-> whole, frac |-> frac, orig |-> orig,
     asin |-> asin]

Widget == Block("Widget", 5, 0, 10000, "ABC123")    \* $5.00 was $100.00
Gadget == Block("Gadget", 50, 0, 5500, "XYZ999")    \* $50.00 was $55.00
Gizmo == Block("Gizmo", 1, 99, 2000, "XYZ999")      \* $1.99 was $20.00

Pages ==
    {Fetched(bs) : bs \in {<<>>, <<Widget>>, <<Widget, Gadget>>,
                           <<Widget, Widget>>, <<Gizmo, Widget>>}}

PageOutcomes == Pages \cup {FetchFail}

\* sequences over S of length n
RECURSIVE SeqsOfLen(_, _)
SeqsOfLen(S, n) ==
    IF n = 0 THEN {<<>>}
    ELSE {Append(q, x) : q \in SeqsOfLen(S, n - 1), x \in S}

\* sale price in cents: bot.py and scrape_and_notify.py join whole and
\* fraction ('00' when the fraction node is absent)
SaleWithFraction(b) == b.whole * 100 + (IF b.frac = Absent THEN 0 ELSE b.frac)

\* sale price in cents: bot_full.py appends ".00" to the whole part
SaleWholeOnly(b) == b.whole * 100

\* (orig - sale) / orig * 100 is computed in IEEE doubles: for these
\* <<sale, orig>> of the modelled price texts the exact quotient is an
\* integer and the double result lies just below it
\* (0.49 of 4.90 gives 89.99999999999999, 71.00 of 100.00 gives
\* 28.999999999999996); for every other modelled pair the double result
\* compares and truncates as the exact quotient does
FloatBelow == {<<49, 490>>, <<7100, 10000>>}

\* the double (orig - sale) / orig * 100 compared with an integer: d < k
DiscountLess(sale, orig, k) ==
    \/ (orig - sale) * 100 < k * orig
    \/ (orig - sale) * 100 = k * orig /\ <<sale, orig>> \in FloatBelow

\* int((orig - sale) / orig * 100): int() truncates toward zero
DiscountInt(sale, orig) ==
    IF orig >= sale
    THEN IF DiscountLess(sale, orig, ((orig - sale) * 100) \div orig)
         THEN (((orig - sale) * 100) \div orig) - 1
         ELSE ((orig - sale) * 100) \div orig
    ELSE 0 - (((sale - orig) * 100) \div orig)

\* the three outcomes of one result block
Skip == [out |-> "skip"]
Raise == [out |-> "raise"]
Keep(d) == [out |-> "deal", deal |-> d]

\* bot.py scrape_deals, loop body (lines 80-106); scrape_and_notify.py
\* scrape_category has the same body and adds the key asin
Block90(b, withAsin) ==
    IF b.title = None \/ b.whole = Absent \/ b.orig = Absent THEN Skip
    ELSE IF b.whole = Bad \/ b.frac = Bad \/ b.orig = Bad THEN Skip
    ELSE IF b.orig = 0 THEN Raise                  \* ZeroDivisionError
    ELSE LET sale == SaleWithFraction(b)
         IN  IF DiscountLess(sale, b.orig, 90) THEN Skip
             ELSE IF b.asin = None THEN Raise      \* None["href"]
             ELSE LET d == [title |-> b.title, sale_price |-> sale,
                            orig_price |-> b.orig,
                            discount |-> DiscountInt(sale, b.orig),
                            link |-> LinkOf(b.asin)]
                  IN  Keep(IF withAsin
                           THEN d @@ [asin |-> b.asin]
                           ELSE d)

\* bot_full.py scrape_category, loop body
BlockFull(b, min_discount) ==
    IF b.title = None \/ b.whole = Absent \/ b.orig = Absent THEN Skip
    ELSE IF b.whole = Bad \/ b.orig = Bad THEN Skip
    ELSE IF b.orig = 0 THEN Raise                  \* ZeroDivisionError
    ELSE LET sale == SaleWholeOnly(b)
             discount == DiscountInt(sale, b.orig)
         IN  IF discount < min_discount THEN Skip
             ELSE IF b.asin = None THEN Raise      \* None["href"]
             ELSE Keep([title |-> b.title, sale |-> sale, orig |-> b.orig,
                        discount |-> discount, link |-> LinkOf(b.asin),
                        asin |-> b.asin])

\* result of a scrape: the deals, or an exception
Scraped(ds) == [ok |-> TRUE, deals |-> ds]
ScrapeRaised == [ok |-> FALSE, deals |-> <<>>]

\* the deals of the blocks outs[i..] appended to acc, or the first exception
RECURSIVE Collect(_, _, _)
Collect(outs, i, acc) ==
    IF i > Len(outs) THEN Scraped(acc)
    ELSE IF outs[i].out = "raise" THEN ScrapeRaised
    ELSE Collect(outs, i + 1,
                 IF outs[i].out = "deal" THEN Append(acc, outs[i].deal)
                 ELSE acc)

\* the item loop of bot.py scrape_deals over one fetched page
BotItems(page) ==
    Collect([i \in 1..Len(page.blocks) |-> Block90(page.blocks[i], FALSE)],
            1, <<>>)

\* scrape_and_notify.py scrape_category(url)
SanScrapeCategory(page) ==
    IF ~page.ok THEN ScrapeRaised
    ELSE Collect([i \in 1..Len(page.blocks) |-> Block90(page.blocks[i], TRUE)],
                 1, <<>>)

\* bot_full.py scrape_category(url, min_discount)
FullScrapeCategory(page, min_discount) ==
    IF ~page.ok THEN ScrapeRaised
    ELSE Collect([i \in 1..Len(page.blocks) |->
                     BlockFull(page.blocks[i], min_discount)], 1, <<>>)

\* bot.py scrape_deals: a failed fetch of one url is logged and skipped
RECURSIVE BotScrapePages(_, _, _)
BotScrapePages(pages, i, acc) ==
    IF i > Len(pages) THEN Scraped(acc)
    ELSE IF ~pages[i].ok THEN BotScrapePages(pages, i + 1, acc)
    ELSE LET r == BotItems(pages[i])
         IN  IF ~r.ok THEN ScrapeRaised
             ELSE BotScrapePages(pages, i + 1, acc \o r.deals)

\* bot.py scrape_deals(): get_category_urls() fetches the home page first
BotScrapeDeals(s) ==
    IF ~s.home THEN ScrapeRaised ELSE BotScrapePages(s.pages, 1, <<>>)

\* scrape_and_notify.py scrape_deals(): no fetch is guarded
RECURSIVE SanScrapePages(_, _, _)
SanScrapePages(pages, i, acc) ==
    IF i > Len(pages) THEN Scraped(acc)
    ELSE LET r == SanScrapeCategory(pages[i])
         IN  IF ~r.ok THEN ScrapeRaised
             ELSE SanScrapePages(pages, i + 1, acc \o r.deals)

SanScrapeDeals(s) == SanScrapePages(s.pages, 1, <<>>)

\* URLs and paths are sequences of text pieces, split at "?" and "&"
ORIGIN == "https://www.amazon.ca"
SORT == "sort=price-asc-rank"

\* bot_full.py CATEGORY_MAP: category key -> path
CATEGORY_MAP ==
    [electronics |->
        <<"/Electronics-Accessories/b/", "?", "ie=UTF8", "&",
          "node=667823011">>]

\* the keys of CATEGORY_MAP in dict order
CategoryOrder == <<"electronics">>

\* category texts a caller passes
CategoryKeys == {"electronics", "Electronics", "ELECTRONICS", "toys", "Toys"}

\* str.lower() on the category texts of the model
CatLower(c) ==
    IF c \in {"Electronics", "ELECTRONICS"} THEN "electronics"
    ELSE IF c = "Toys" THEN "toys"
    ELSE c

\* bot_full.py make_url(path)
make_url(path) ==
    <<ORIGIN>> \o path
        \o <<IF "?" \notin Range(path) THEN "?" ELSE "&", SORT>>

\* get_category_urls(cat) without the lower() of the key
FullGetCategoryUrlsExact(cat) ==
    IF cat \notin {None, ""}
    THEN IF cat \in DOMAIN CATEGORY_MAP
         THEN <<make_url(CATEGORY_MAP[cat])>>
         ELSE <<>>
    ELSE [i \in 1..Len(CategoryOrder) |-> make_url(CATEGORY_MAP[CategoryOrder[i]])]

\* bot_full.py get_category_urls(cat): `if cat:` is false for None and ""
FullGetCategoryUrls(cat) ==
    IF cat \notin {None, ""}
    THEN IF CatLower(cat) \in DOMAIN CATEGORY_MAP
         THEN <<make_url(CATEGORY_MAP[CatLower(cat)])>>
         ELSE <<>>
    ELSE [i \in 1..Len(CategoryOrder) |-> make_url(CATEGORY_MAP[CategoryOrder[i]])]

\* scrape_and_notify.py CATEGORY_PATHS
CATEGORY_PATHS ==
    <<
    <<"/b", "?", "node=37219708011", "&", "ref_=nav_cs_cash_desk_disco">>,
    <<"/Best-Sellers-generic/zgbs/">>,
    <<"/Electronics-Accessories/b/", "?", "ie=UTF8", "&", "node=667823011",
      "&", "ref_=nav_cs_electronics">>,
    <<"/Books-Used-Books-Textbooks/b/", "?", "ie=UTF8", "&", "node=916520",
      "&", "ref_=nav_cs_books">>,
    <<"/Beauty/b/", "?", "ie=UTF8", "&", "node=6205124011", "&",
      "ref_=nav_cs_beauty">>,
    <<"/Toys-Games/b/", "?", "ie=UTF8", "&", "node=6205517011", "&",
      "ref_=nav_cs_toys">>,
    <<"/sporting-goods/b/", "?", "ie=UTF8", "&", "node=2242989011", "&",
      "ref_=nav_cs_sports">>,
    <<"/Computers-Accessories/b/", "?", "ie=UTF8", "&", "node=2404990011",
      "&", "ref_=nav_cs_pc">>,
    <<"/Health-Personal-Care/b/", "?", "ie=UTF8", "&", "node=6205177011",
      "&", "ref_=nav_cs_hpc">>,
    <<"/Home-Improvement/b/", "?", "ie=UTF8", "&", "node=3006902011", "&",
      "ref_=nav_cs_hi">>,
    <<"/Fashion/b/", "?", "ie=UTF8", "&", "node=21204935011", "&",
      "ref_=nav_cs_fashion">>,
    <<"/video-games-hardware-accessories/b/", "?", "ie=UTF8", "&",
      "node=3198031", "&", "ref_=nav_cs_video_games">>,
    <<"/grocery/b/", "?", "ie=UTF8", "&", "node=6967215011", "&",
      "ref_=nav_cs_grocery">>,
    <<"/pet-supplies-dog-cat-food-bed-toy/b/", "?", "ie=UTF8", "&",
      "node=6205514011", "&", "ref_=nav_cs_pets">>,
    <<"/gp/browse.html", "?", "node=3561346011", "&", "ref_=nav_cs_baby">>
    >>

\* scrape_and_notify.py get_category_urls()
SanGetCategoryUrls ==
    [i \in 1..Len(CATEGORY_PATHS) |->
        <<ORIGIN>> \o CATEGORY_PATHS[i]
            \o <<IF "?" \in Range(CATEGORY_PATHS[i]) THEN "&" ELSE "?", SORT>>]

\* the position in site.pages of the listing page a locator names
PageIndex(url) ==
    CHOOSE k \in 1..Len(CategoryOrder) :
        make_url(CATEGORY_MAP[CategoryOrder[k]]) = url

\* bot_full.py get_category_urls(cat): the locators, as indices of site.pages
FullCategoryUrls(cat) ==
    [i \in 1..Len(FullGetCategoryUrls(cat)) |->
        PageIndex(FullGetCategoryUrls(cat)[i])]

\* bot_full.py scrape_deals(cat, min_discount): no fetch is guarded
RECURSIVE FullScrapeUrls(_, _, _, _, _)
FullScrapeUrls(pages, urls, i, min_discount, acc) ==
    IF i > Len(urls) THEN Scraped(acc)
    ELSE LET r == FullScrapeCategory(pages[urls[i]], min_discount)
         IN  IF ~r.ok THEN ScrapeRaised
             ELSE FullScrapeUrls(pages, urls, i + 1, min_discount,
                                 acc \o r.deals)

FullScrapeDeals(s, cat, min_discount) ==
    FullScrapeUrls(s.pages, FullCategoryUrls(cat), 1, min_discount, <<>>)

-----------------------------------------------------------------------------
(* Handlers and jobs *)

BotProcs == {"cmd", "job"}          \* bot.py scrape_command, job_callback
SanProcs == {"run"}                 \* scrape_and_notify.py run_and_notify
FullProcs == {"manual", "subsjob", "alertjob"}  \* bot_full.py
ChatProcs == {"chat"}   \* bot_full.py: the dispatch of one update at a time
Procs == BotProcs \cup SanProcs \cup FullProcs \cup ChatProcs

\* str(update.message.chat.id) of the chats talking to bot_full.py
Uids == {"111", "222"}

\* subscriptions.json / alerts.json: [kind, tab]
TableFile(kind, tab) == [kind |-> kind, tab |-> tab]
MissingTable == TableFile("missing", <<>>)

NoSite == [home |-> TRUE, pages |-> <<>>, product |-> <<>>]

\* the four ConversationHandlers of bot_full.py in the order main adds them
ConvOrder == <<"search", "subscribe", "unsubscribe", "alert">>

\* per ConversationHandler the conversation keys (chats) in its one state:
\* no conversation is open when the bot starts
NoConversations == [i \in 1..Len(ConvOrder) |-> {}]

\* everything but program, store, site, subs, alerts
InitRest ==
    /\ store0 = store
    /\ pc = [p \in Procs |-> "idle"]
    /\ deals = [p \in Procs |-> <<>>]
    /\ idx = [p \in Procs |-> 0]
    /\ work = [p \in Procs |-> IF p = "chat" THEN NoConversations ELSE <<>>]
    /\ seenMem = <<>>
    /\ runs = [p \in Procs |-> 0]
    /\ sent = <<>>
    /\ hist = <<>>

-----------------------------------------------------------------------------
(* SpecSeen: is_new_deal called up to MaxCalls times on one seen.json *)

InitSeen ==
    /\ program \in {"bot", "notify"}
    /\ admin = None
    /\ store \in StoreContents
    /\ subs = MissingTable
    /\ alerts = MissingTable
    /\ site = NoSite
    /\ InitRest

Call(link, r) ==
    [link |-> link, ret |-> r.ret, before |-> store, after |-> r.store]

\* bot.py is_new_deal(link)
BotCall(link) ==
    /\ program = "bot"
    /\ Len(hist) < MaxCalls
    /\ LET r == BotIsNewDeal(store, link)
       IN  /\ store' = r.store
           /\ hist' = Append(hist, Call(link, r))
    /\ UNCHANGED <<program, admin,
                   store0, subs, alerts, site, pc, deals, idx, work,
                   seenMem, runs, sent>>

\* scrape_and_notify.py is_new_deal(link)
SanCall(link) ==
    /\ program = "notify"
    /\ Len(hist) < MaxCalls
    /\ LET r == SanIsNewDeal(store, link)
       IN  /\ store' = r.store
           /\ hist' = Append(hist, Call(link, r))
    /\ UNCHANGED <<program, admin,
                   store0, subs, alerts, site, pc, deals, idx, work,
                   seenMem, runs, sent>>

NextSeen ==
    \/ \E link \in Links : BotCall(link)
    \/ \E link \in Links : SanCall(link)

SpecSeen == InitSeen /\ [][NextSeen]_vars

-----------------------------------------------------------------------------
(* SpecExtract: one listing page is extracted once by one of the programs *)

\* price texts of the candidate blocks: whole part (dollars), fraction part
\* (cents, Absent: no fraction node), original price (cents)
PriceWholes == {0, 5, 10, 50, 71}
PriceFracs == {Absent, 0, 49, 99}
PriceOrigs == {490, 999, 1000, 5500, 10000}

\* min_discount arguments of bot_full.py scrape_category
MinDiscounts == {0, 29, 90, 91}

\* blocks with every node present and every price text numeric
Candidates ==
    {Block("Widget", w, f, o, "ABC123") :
        w \in PriceWholes, f \in PriceFracs, o \in PriceOrigs}

\* blocks with a missing node, a non-numeric price text or a zero price
Malformed ==
    {Block(None, 5, 0, 10000, "ABC123"),        \* no h2 a span
     Block("Widget", Absent, 0, 10000, "ABC123"),   \* no a-price-whole
     Block("Widget", 5, 0, Absent, "ABC123"),   \* no a-text-price
     Block("Widget", Bad, 0, 10000, "ABC123"),  \* whole text not a number
     Block("Widget", 5, Bad, 10000, "ABC123"),  \* fraction text not a number
     Block("Widget", 5, 0, Bad, "ABC123"),      \* original text not a number
     Block("Widget", 5, 0, 0, "ABC123"),        \* original price $0.00
     Block("Widget", 5, 0, 10000, None),        \* no h2 a[href]
     Block("Gadget", 50, 0, 5500, None)}        \* no h2 a[href], 9% off

ExtractPages ==
    {Fetched(<<b>>) : b \in Candidates \cup Malformed}
    \cup {Fetched(<<m, Gizmo>>) : m \in Malformed}
    \cup {Fetched(<<Gizmo, m>>) : m \in Malformed}

InitExtract ==
    /\ program \in {"bot", "notify", "full"}
    /\ admin = None
    /\ store = MissingStore
    /\ subs = MissingTable
    /\ alerts = MissingTable
    /\ \E pg \in ExtractPages :
          site = [home |-> TRUE, pages |-> <<pg>>, product |-> <<>>]
    /\ InitRest

Extraction(page, min, res) == [page |-> page, min |-> min, res |-> res]

\* bot.py scrape_deals, the item loop over the page of one url
BotExtract ==
    /\ program = "bot"
    /\ hist = <<>>
    /\ hist' = <<Extraction(site.pages[1], 90, BotItems(site.pages[1]))>>
    /\ UNCHANGED <<program, admin, store, store0, subs, alerts, site, pc,
                   deals, idx, work, seenMem, runs, sent>>

\* scrape_and_notify.py scrape_category(url)
SanExtract ==
    /\ program = "notify"
    /\ hist = <<>>
    /\ hist' = <<Extraction(site.pages[1], 90,
                            SanScrapeCategory(site.pages[1]))>>
    /\ UNCHANGED <<program, admin, store, store0, subs, alerts, site, pc,
                   deals, idx, work, seenMem, runs, sent>>

\* bot_full.py scrape_category(url, min_discount)
FullExtract(min_discount) ==
    /\ program = "full"
    /\ hist = <<>>
    /\ hist' = <<Extraction(site.pages[1], min_discount,
                            FullScrapeCategory(site.pages[1], min_discount))>>
    /\ UNCHANGED <<program, admin, store, store0, subs, alerts, site, pc,
                   deals, idx, work, seenMem, runs, sent>>

NextExtract ==
    \/ BotExtract
    \/ SanExtract
    \/ \E m \in MinDiscounts : FullExtract(m)

SpecExtract == InitExtract /\ [][NextExtract]_vars

-----------------------------------------------------------------------------
(* SpecUrls: get_category_urls called up to MaxCalls times *)

InitUrls ==
    /\ program \in {"notify", "full"}
    /\ admin = None
    /\ store = MissingStore
    /\ subs = MissingTable
    /\ alerts = MissingTable
    /\ site = NoSite
    /\ InitRest

UrlsCall(cat, urls) == [cat |-> cat, urls |-> urls]

\* bot_full.py get_category_urls(cat)
FullUrlsCall(cat) ==
    /\ program = "full"
    /\ Len(hist) < MaxCalls
    /\ hist' = Append(hist, UrlsCall(cat, FullGetCategoryUrls(cat)))
    /\ UNCHANGED <<program, admin, store, store0, subs, alerts, site, pc,
                   deals, idx, work, seenMem, runs, sent>>

\* scrape_and_notify.py get_category_urls()
SanUrlsCall ==
    /\ program = "notify"
    /\ Len(hist) < MaxCalls
    /\ hist' = Append(hist, UrlsCall(None, SanGetCategoryUrls))
    /\ UNCHANGED <<program, admin, store, store0, subs, alerts, site, pc,
                   deals, idx, work, seenMem, runs, sent>>

NextUrls ==
    \/ \E cat \in CategoryKeys \cup {None} : FullUrlsCall(cat)
    \/ SanUrlsCall

SpecUrls == InitUrls /\ [][NextUrls]_vars

-----------------------------------------------------------------------------
(* Shared pieces of the notification loops *)

\* cycles started and handler calls made so far, the suspended one included
StartedRuns == runs["cmd"] + runs["job"] + runs["run"] + runs["manual"]
                   + runs["subsjob"] + runs["alertjob"] + runs["chat"]
                   + (IF pc["chat"] = "replying" THEN 1 ELSE 0)

\* handler calls and started cycles together stay within MaxRuns
Budget == StartedRuns < MaxRuns

CanStart(p) == pc[p] \in {"idle", "done", "failed", "refused"}
                   /\ StartedRuns < MaxRuns

\* a send attempt of p, tagged with the number of the cycle it belongs to
\* (a cycle that sends in its first step is counted from that step on)
Attempt(p, to, link) ==
    [by |-> p, to |-> to, link |-> link,
     run |-> IF pc[p] \in {"idle", "done", "failed", "refused"}
             THEN runs[p] + 1 ELSE runs[p]]

\* the sites a behaviour can face: 1..MaxLocators listing pages
ListingSites(n) ==
    UNION {SeqsOfLen(PageOutcomes, k) : k \in 1..n}

\* for d in deals[i+1..]: if is_new_deal(d["link"]): ... await send
\* runs the loop up to its next await: the store after the calls made, and
\* where the loop stands ("send" at deal idx, "end", or "raise")
RECURSIVE BotNextNew(_, _, _)
BotNextNew(st, ds, i) ==
    IF i >= Len(ds) THEN [out |-> "end", store |-> st, idx |-> i]
    ELSE LET r == BotIsNewDeal(st, ds[i + 1].link)
         IN  IF r.ret = "raise"
             THEN [out |-> "raise", store |-> r.store, idx |-> i + 1]
             ELSE IF r.ret = "true"
             THEN [out |-> "send", store |-> r.store, idx |-> i + 1]
             ELSE BotNextNew(r.store, ds, i + 1)

RECURSIVE SanNextNew(_, _, _)
SanNextNew(st, ds, i) ==
    IF i >= Len(ds) THEN [out |-> "end", store |-> st, idx |-> i]
    ELSE LET r == SanIsNewDeal(st, ds[i + 1].link)
         IN  IF r.ret = "raise"
             THEN [out |-> "raise", store |-> r.store, idx |-> i + 1]
             ELSE IF r.ret = "true"
             THEN [out |-> "send", store |-> r.store, idx |-> i + 1]
             ELSE SanNextNew(r.store, ds, i + 1)

PcAfter(out) ==
    CASE out = "send" -> "sending"
      [] out = "end" -> "done"
      [] out = "raise" -> "failed"

-----------------------------------------------------------------------------
(* SpecBot: bot.py.  scrape_command (handler "cmd") and job_callback (job  *)
(* "job") run on one event loop and interleave at their awaits; the calls  *)
(* between two awaits of one coroutine are one step.                       *)

\* bot.py: os.getenv("ADMIN_USERNAME", "CrushTheCasino")
DEFAULT_ADMIN == "CrushTheCasino"

\* update.effective_user.username or ""
Usernames == {"CrushTheCasino", "crushthecasino", "mallory", ""}

\* str.lower() on the user names of the model
Lower(u) == IF u = "CrushTheCasino" THEN "crushthecasino" ELSE u

InitBot ==
    /\ program = "bot"
    /\ admin \in {DEFAULT_ADMIN, ""}
    /\ store \in StoreContents
    /\ subs = MissingTable
    /\ alerts = MissingTable
    /\ site \in {[home |-> h, pages |-> ps, product |-> <<>>] :
                    h \in BOOLEAN, ps \in ListingSites(MaxLocators)}
    /\ InitRest

\* a loop that saves the link of every deal scrape_deals returned as soon
\* as it has the list, whether or not the deal is announced
BotLoopRecordAll(p, ds, i) ==
    LET n == BotNextNew(store, ds, i)
    IN  /\ store' = WriteStore(n.store, "list",
                               [j \in 1..Len(ds) |-> ds[j].link])
        /\ idx' = [idx EXCEPT ![p] = n.idx]
        /\ pc' = [pc EXCEPT ![p] = PcAfter(n.out)]
        /\ sent' = IF n.out = "send"
                   THEN Append(sent, Attempt(p, CHANNEL_ID, ds[n.idx].link))
                   ELSE sent

\* the loop of scrape_command / job_callback from deal i on, up to its next
\* await or its end
BotLoop(p, ds, i) ==
    LET n == BotNextNew(store, ds, i)
    IN  /\ store' = n.store
        /\ idx' = [idx EXCEPT ![p] = n.idx]
        /\ pc' = [pc EXCEPT ![p] = PcAfter(n.out)]
        /\ sent' = IF n.out = "send"
                   THEN Append(sent, Attempt(p, CHANNEL_ID, ds[n.idx].link))
                   ELSE sent

\* scrape_command up to its first await: the admin check and the first reply
CmdStart(user) ==
    /\ program = "bot"
    /\ CanStart("cmd")
    /\ runs' = [runs EXCEPT !["cmd"] = @ + 1]
    /\ pc' = [pc EXCEPT !["cmd"] =
                 IF Lower(user) # Lower(admin) THEN "refused"
                 ELSE "replying"]
    /\ deals' = [deals EXCEPT !["cmd"] = <<>>]
    /\ idx' = [idx EXCEPT !["cmd"] = 0]
    /\ UNCHANGED <<program, admin,
                   store, store0, subs, alerts, site, work, seenMem,
                   sent, hist>>

\* scrape_command after "Running manual scrape": scrape_deals() and the loop
\* up to the first send (ok: the reply was delivered)
CmdScrape(ok) ==
    /\ program = "bot"
    /\ pc["cmd"] = "replying"
    /\ LET r == BotScrapeDeals(site)
       IN  IF ~ok \/ ~r.ok
           THEN /\ pc' = [pc EXCEPT !["cmd"] = "failed"]
                /\ UNCHANGED <<store, deals, idx, sent>>
           ELSE /\ deals' = [deals EXCEPT !["cmd"] = r.deals]
                /\ BotLoop("cmd", r.deals, 0)
    /\ UNCHANGED <<program, admin,
                   store0, subs, alerts, site, work, seenMem, runs,
                   hist>>

\* job_callback up to its first await: scrape_deals() and the loop up to the
\* first send
JobStart ==
    /\ program = "bot"
    /\ CanStart("job")
    /\ runs' = [runs EXCEPT !["job"] = @ + 1]
    /\ LET r == BotScrapeDeals(site)
       IN  IF ~r.ok
           THEN /\ pc' = [pc EXCEPT !["job"] = "failed"]
                /\ deals' = [deals EXCEPT !["job"] = <<>>]
                /\ idx' = [idx EXCEPT !["job"] = 0]
                /\ UNCHANGED <<store, sent>>
           ELSE /\ deals' = [deals EXCEPT !["job"] = r.deals]
                /\ BotLoop("job", r.deals, 0)
    /\ UNCHANGED <<program, admin,
                   store0, subs, alerts, site, work, seenMem, hist>>

\* await context.bot.send_message(...) returns (ok) or raises: the loop goes
\* on to the next new deal, or the exception ends the coroutine
BotSendDone(p, ok) ==
    /\ program = "bot"
    /\ p \in BotProcs
    /\ pc[p] = "sending"
    /\ IF ok
       THEN BotLoop(p, deals[p], idx[p])
       ELSE /\ pc' = [pc EXCEPT ![p] = "failed"]
            /\ UNCHANGED <<store, idx, sent>>
    /\ UNCHANGED <<program, admin,
                   store0, subs, alerts, site, deals, work, seenMem,
                   runs, hist>>

NextBot ==
    \/ \E user \in Usernames : CmdStart(user)
    \/ \E ok \in BOOLEAN : CmdScrape(ok)
    \/ JobStart
    \/ \E p \in BotProcs, ok \in BOOLEAN : BotSendDone(p, ok)

SpecBot == InitBot /\ [][NextBot]_vars

-----------------------------------------------------------------------------
(* SpecNotify: scrape_and_notify.py.  run_and_notify is one script run; the *)
(* scheduler starts it again.  The debug ping at its end carries no deal    *)
(* and is left out.                                                         *)

InitNotify ==
    /\ program = "notify"
    /\ admin = None
    /\ store \in StoreContents
    /\ subs = MissingTable
    /\ alerts = MissingTable
    /\ site \in {[home |-> TRUE, pages |-> ps, product |-> <<>>] :
                    ps \in ListingSites(MaxLocators)}
    /\ InitRest

\* the loop of run_and_notify from deal i on, up to its next await or its end
SanLoop(ds, i) ==
    LET n == SanNextNew(store, ds, i)
    IN  /\ store' = n.store
        /\ idx' = [idx EXCEPT !["run"] = n.idx]
        /\ pc' = [pc EXCEPT !["run"] = PcAfter(n.out)]
        /\ sent' = IF n.out = "send"
                   THEN Append(sent, Attempt("run", CHANNEL_ID, ds[n.idx].link))
                   ELSE sent

\* run_and_notify up to its first await
RunStart ==
    /\ program = "notify"
    /\ CanStart("run")
    /\ runs' = [runs EXCEPT !["run"] = @ + 1]
    /\ LET r == SanScrapeDeals(site)
       IN  IF ~r.ok
           THEN /\ pc' = [pc EXCEPT !["run"] = "failed"]
                /\ deals' = [deals EXCEPT !["run"] = <<>>]
                /\ idx' = [idx EXCEPT !["run"] = 0]
                /\ UNCHANGED <<store, sent>>
           ELSE /\ deals' = [deals EXCEPT !["run"] = r.deals]
                /\ SanLoop(r.deals, 0)
    /\ UNCHANGED <<program, admin,
                   store0, subs, alerts, site, work, seenMem, hist>>

\* await bot.send_message(...) returns (ok) or raises
SanSendDone(ok) ==
    /\ program = "notify"
    /\ pc["run"] = "sending"
    /\ IF ok
       THEN SanLoop(deals["run"], idx["run"])
       ELSE /\ pc' = [pc EXCEPT !["run"] = "failed"]
            /\ UNCHANGED <<store, idx, sent>>
    /\ UNCHANGED <<program, admin,
                   store0, subs, alerts, site, deals, work, seenMem,
                   runs, hist>>

NextNotify ==
    \/ RunStart
    \/ \E ok \in BOOLEAN : SanSendDone(ok)

SpecNotify == InitNotify /\ [][NextNotify]_vars

-----------------------------------------------------------------------------
(* SpecFull: bot_full.py.  scrape_manual (handler "manual"),               *)
(* job_subscriptions ("subsjob") and job_alerts ("alertjob") run on one    *)
(* event loop and interleave at their awaits.  The debug ping of           *)
(* job_alerts carries no deal and is left out.                             *)

\* chat ids, as the str(chat.id) keys of the tables
ManualChat == "900"         \* the chat scrape_manual answers in

\* alert targets: a 10-character ASIN, and one that is not 10 long
AlertTargets == {"B0000ABC12", "ABC123"}

Entry(k, m) == [key |-> k, min |-> m]
UserEntries(u, es) == [uid |-> u, items |-> es]

\* a parsed table: users in insertion order, each with its entries in
\* insertion order
SubsTables ==
    {TableFile("missing", <<>>),
     TableFile("dict", <<UserEntries("111", <<Entry("electronics", 50)>>)>>),
     TableFile("dict", <<UserEntries("111", <<Entry("electronics", 90)>>),
                         UserEntries("222", <<Entry("electronics", 0),
                                              Entry("toys", 10)>>)>>)}

AlertTables ==
    {TableFile("corrupt", <<>>),
     TableFile("dict", <<UserEntries("111", <<Entry("B0000ABC12", 50)>>)>>),
     TableFile("dict", <<UserEntries("222", <<Entry("ABC123", 10),
                                              Entry("B0000ABC12", 99)>>)>>)}

ProductOutcomes == {Fetched(<<>>), Fetched(<<Gadget>>), FetchFail}

FullStores ==
    {MissingStore, StoreFile("corrupt", <<>>, TRUE),
     StoreFile("dict", <<>>, TRUE),
     StoreFile("dict", <<LinkOf("ABC123")>>, TRUE),
     StoreFile("dict", <<LinkOf("XYZ999")>>, FALSE),
     StoreFile("list", <<LinkOf("ABC123")>>, TRUE)}

\* load_json that gives {} whatever the file holds
LoadTableEmpty(t) == <<>>

\* bot_full.py load_json on a table: {} when the file is missing or corrupt
LoadTable(t) == IF t.kind = "dict" THEN t.tab ELSE <<>>

\* for uid, entries in data.items(): for key, min_d in entries.items()
RECURSIVE Flatten(_)
Flatten(tab) ==
    IF tab = <<>> THEN <<>>
    ELSE [i \in 1..Len(tab[1].items) |->
             [uid |-> tab[1].uid, key |-> tab[1].items[i].key,
              min |-> tab[1].items[i].min]] \o Flatten(Tail(tab))

\* scrape_manual: load_json(SEEN_FILE).get("links", [])
FullLoadSeen(st) ==
    IF st.kind = "missing" THEN [ok |-> TRUE, links |-> <<>>]
    ELSE IF ~st.readable THEN [ok |-> FALSE, links |-> <<>>] \* PermissionError
    ELSE IF st.kind = "corrupt" THEN [ok |-> TRUE, links |-> <<>>]
    ELSE IF st.kind = "list" THEN [ok |-> FALSE, links |-> <<>>] \* no .get
    ELSE IF st.kind = "dict" THEN [ok |-> TRUE, links |-> st.links]
    ELSE [ok |-> TRUE, links |-> <<>>]

InitFull ==
    /\ program = "full"
    /\ admin \in {DEFAULT_ADMIN, None}
    /\ store \in FullStores
    /\ subs \in SubsTables
    /\ alerts \in AlertTables
    /\ site \in {[home |-> TRUE, pages |-> <<pg>>,
                  product |-> [t \in {"B0000ABC12"} |-> pr]] :
                    pg \in PageOutcomes, pr \in ProductOutcomes}
    /\ InitRest

\* for d in deals[i+1..]: if d['link'] not in seen: ... await reply
\* the index of the next deal to announce, or 0 when none is left
RECURSIVE ManualNextNew(_, _, _)
ManualNextNew(seen, ds, i) ==
    IF i >= Len(ds) THEN 0
    ELSE IF ds[i + 1].link \notin Range(seen) THEN i + 1
    ELSE ManualNextNew(seen, ds, i + 1)

\* the loop of scrape_manual from deal i on with the in-memory list seen,
\* up to its next await; after the loop save_json writes the list
ManualLoop(seen, ds, i) ==
    LET n == ManualNextNew(seen, ds, i)
    IN  /\ seenMem' = seen
        /\ IF n = 0
           THEN /\ store' = WriteStore(store, "dict", seen)
                /\ pc' = [pc EXCEPT !["manual"] = "done"]
                /\ idx' = [idx EXCEPT !["manual"] = Len(ds)]
                /\ sent' = sent
           ELSE /\ store' = store
                /\ pc' = [pc EXCEPT !["manual"] = "sending"]
                /\ idx' = [idx EXCEPT !["manual"] = n]
                /\ sent' = Append(sent, Attempt("manual", ManualChat,
                                                ds[n].link))

\* tgt.from_user.username: None when the account has no username
FullUsernames == {"CrushTheCasino", "crushthecasino", "mallory", None}

\* scrape_manual up to its first await: the admin check and the first reply
ManualStart(user) ==
    /\ program = "full"
    /\ CanStart("manual")
    /\ runs' = [runs EXCEPT !["manual"] = @ + 1]
    /\ pc' = [pc EXCEPT !["manual"] =
                 IF admin # None /\ admin # "" /\ user # admin THEN "refused"
                 ELSE "replying"]
    /\ deals' = [deals EXCEPT !["manual"] = <<>>]
    /\ idx' = [idx EXCEPT !["manual"] = 0]
    /\ seenMem' = <<>>
    /\ UNCHANGED <<program, admin, store, store0, subs, alerts, site, work,
                   sent, hist>>

\* scrape_manual after "Scraping now...": scrape_deals(), the load of the
\* seen links and the loop up to the first announcement
ManualScrape(ok) ==
    /\ program = "full"
    /\ pc["manual"] = "replying"
    /\ LET r == FullScrapeDeals(site, None, 0)
           seen == FullLoadSeen(store)
       IN  IF ~ok \/ ~r.ok \/ ~seen.ok
           THEN /\ pc' = [pc EXCEPT !["manual"] = "failed"]
                /\ UNCHANGED <<store, deals, idx, sent, seenMem>>
           ELSE /\ deals' = [deals EXCEPT !["manual"] = r.deals]
                /\ ManualLoop(seen.links, r.deals, 0)
    /\ UNCHANGED <<program, admin, store0, subs, alerts, site, work, runs,
                   hist>>

\* await tgt.reply_text(deal) returns (ok) or raises; the link is appended
\* to the in-memory list only after the reply returned
ManualSendDone(ok) ==
    /\ program = "full"
    /\ pc["manual"] = "sending"
    /\ IF ok
       THEN ManualLoop(Append(seenMem, deals["manual"][idx["manual"]].link),
                       deals["manual"], idx["manual"])
       ELSE /\ pc' = [pc EXCEPT !["manual"] = "failed"]
            /\ UNCHANGED <<store, idx, sent, seenMem>>
    /\ UNCHANGED <<program, admin, store0, subs, alerts, site, deals, work,
                   runs, hist>>

\* job_subscriptions from the work list w (w[1] is the subscription being
\* served, ds its deals, i the deals already sent), up to its next await
RECURSIVE SubsNext(_, _, _)
SubsNext(w, ds, i) ==
    IF w = <<>> THEN [out |-> "end", work |-> w, deals |-> <<>>, idx |-> 0]
    ELSE IF i < Len(ds)
    THEN [out |-> "send", work |-> w, deals |-> ds, idx |-> i + 1]
    ELSE IF Len(w) = 1
    THEN [out |-> "end", work |-> <<>>, deals |-> <<>>, idx |-> 0]
    ELSE LET r == FullScrapeDeals(site, w[2].key, w[2].min)
         IN  IF ~r.ok
             THEN [out |-> "raise", work |-> Tail(w), deals |-> <<>>,
                   idx |-> 0]
             ELSE SubsNext(Tail(w), r.deals, 0)

\* job_alerts from the work list w on, up to its next await: only targets
\* of length 10 are looked up, and only the first deal of the page is sent
RECURSIVE AlertsNext(_)
AlertsNext(w) ==
    IF w = <<>> THEN [out |-> "end", work |-> w, deals |-> <<>>, idx |-> 0]
    ELSE IF Len(w[1].key) # 10 THEN AlertsNext(Tail(w))
    ELSE LET r == FullScrapeCategory(site.product[w[1].key], 0)
         IN  IF ~r.ok
             THEN [out |-> "raise", work |-> w, deals |-> <<>>, idx |-> 0]
             ELSE IF r.deals = <<>> THEN AlertsNext(Tail(w))
             ELSE [out |-> "send", work |-> w, deals |-> r.deals, idx |-> 1]

\* a job of bot_full.py moves to the position n
JobMoves(p, n) ==
    /\ work' = [work EXCEPT ![p] = n.work]
    /\ deals' = [deals EXCEPT ![p] = n.deals]
    /\ idx' = [idx EXCEPT ![p] = n.idx]
    /\ pc' = [pc EXCEPT ![p] = PcAfter(n.out)]
    /\ sent' = IF n.out = "send"
               THEN Append(sent, Attempt(p, n.work[1].uid,
                                         n.deals[n.idx].link))
               ELSE sent

\* job_subscriptions up to its first await
SubsStart ==
    /\ program = "full"
    /\ CanStart("subsjob")
    /\ runs' = [runs EXCEPT !["subsjob"] = @ + 1]
    /\ LET w == Flatten(LoadTable(subs))
           r == FullScrapeDeals(site, w[1].key, w[1].min)
       IN  IF w = <<>>
           THEN JobMoves("subsjob", SubsNext(w, <<>>, 0))
           ELSE IF ~r.ok
           THEN JobMoves("subsjob", [out |-> "raise", work |-> w,
                                     deals |-> <<>>, idx |-> 0])
           ELSE JobMoves("subsjob", SubsNext(w, r.deals, 0))
    /\ UNCHANGED <<program, admin, store, store0, subs, alerts, site,
                   seenMem, hist>>

\* job_subscriptions: await context.bot.send_message(...) returns or raises
SubsSendDone(ok) ==
    /\ program = "full"
    /\ pc["subsjob"] = "sending"
    /\ IF ok
       THEN JobMoves("subsjob",
                     SubsNext(work["subsjob"], deals["subsjob"],
                              idx["subsjob"]))
       ELSE /\ pc' = [pc EXCEPT !["subsjob"] = "failed"]
            /\ UNCHANGED <<work, deals, idx, sent>>
    /\ UNCHANGED <<program, admin, store, store0, subs, alerts, site,
                   seenMem, runs, hist>>

\* job_alerts up to its first await
AlertsStart ==
    /\ program = "full"
    /\ CanStart("alertjob")
    /\ runs' = [runs EXCEPT !["alertjob"] = @ + 1]
    /\ JobMoves("alertjob", AlertsNext(Flatten(LoadTable(alerts))))
    /\ UNCHANGED <<program, admin, store, store0, subs, alerts, site,
                   seenMem, hist>>

\* job_alerts: await context.bot.send_message(...) returns or raises
AlertsSendDone(ok) ==
    /\ program = "full"
    /\ pc["alertjob"] = "sending"
    /\ IF ok
       THEN JobMoves("alertjob", AlertsNext(Tail(work["alertjob"])))
       ELSE /\ pc' = [pc EXCEPT !["alertjob"] = "failed"]
            /\ UNCHANGED <<work, deals, idx, sent>>
    /\ UNCHANGED <<program, admin, store, store0, subs, alerts, site,
                   seenMem, runs, hist>>

NextFull ==
    \/ \E user \in FullUsernames : ManualStart(user)
    \/ \E ok \in BOOLEAN : ManualScrape(ok)
    \/ \E ok \in BOOLEAN : ManualSendDone(ok)
    \/ SubsStart
    \/ \E ok \in BOOLEAN : SubsSendDone(ok)
    \/ AlertsStart
    \/ \E ok \in BOOLEAN : AlertsSendDone(ok)

SpecFull == InitFull /\ [][NextFull]_vars

-----------------------------------------------------------------------------
(* SpecCycles: the cycles of bot.py and of bot_full.py, every one of which *)
(* calls scrape_deals and then announces and records                       *)

InitCycles == InitBot \/ InitFull

NextCycles ==
    \/ \E user \in Usernames : CmdStart(user)
    \/ \E ok \in BOOLEAN : CmdScrape(ok)
    \/ JobStart
    \/ \E p \in BotProcs, ok \in BOOLEAN : BotSendDone(p, ok)
    \/ \E user \in FullUsernames : ManualStart(user)
    \/ \E ok \in BOOLEAN : ManualScrape(ok)
    \/ \E ok \in BOOLEAN : ManualSendDone(ok)
    \/ SubsStart
    \/ \E ok \in BOOLEAN : SubsSendDone(ok)
    \/ AlertsStart
    \/ \E ok \in BOOLEAN : AlertsSendDone(ok)

SpecCycles == InitCycles /\ [][NextCycles]_vars

-----------------------------------------------------------------------------
(* SpecChat: the conversation handlers of bot_full.py, up to MaxCalls      *)
(* replies handled                                                         *)

\* texts of a reply, split at white space (text.strip().split())
DigitTexts == {"50", "090"}
OtherTexts == {"abc"}

\* a text of one character that is a digit to str.isdigit() and no decimal
\* number to int(): the superscript two
SuperscriptTwo == "superscript 2"

\* int(parts[1]) on the digit texts of the model
IntOf(t) == IF t = "50" THEN 50 ELSE IF t = "090" THEN 90 ELSE 0

\* str.isdigit()
IsDigit(t) == t \in DigitTexts \cup {SuperscriptTwo}

\* int(t) raises ValueError on a text that passed isdigit()
IntRaises(t) == t = SuperscriptTwo

\* replies to "<category> <min_discount>"
CategoryReplies ==
    {<<"electronics", n>> : n \in DigitTexts \cup OtherTexts}
    \cup {<<"Toys", "50">>, <<"electronics">>}

\* replies to "<URL_or_ASIN> <min_drop>"
AlertReplies ==
    {<<"B0000ABC12", n>> : n \in DigitTexts \cup OtherTexts}
    \cup {<<"ABC123", "50">>, <<"B0000ABC12">>}

\* replies to "category to unsubscribe"
UnsubscribeReplies == {"ELECTRONICS", "Toys"}

\* what the environment does to one handler call before its first await:
\* the table file cannot be opened (an OSError other than
\* FileNotFoundError), or it can
Envs == {"ok", "readerror"}

\* dict[key] = min that always adds an entry
SetItemAppend(items, k, m) == Append(items, Entry(k, m))

\* dict[key] = min on the entries of one user
SetItem(items, k, m) ==
    IF \E j \in 1..Len(items) : items[j].key = k
    THEN [j \in 1..Len(items) |->
             IF items[j].key = k THEN Entry(k, m) ELSE items[j]]
    ELSE Append(items, Entry(k, m))

\* data.setdefault(uid, {})[key] = min
SetEntry(tab, u, k, m) ==
    IF \E i \in 1..Len(tab) : tab[i].uid = u
    THEN [i \in 1..Len(tab) |->
             IF tab[i].uid = u
             THEN UserEntries(u, SetItem(tab[i].items, k, m))
             ELSE tab[i]]
    ELSE Append(tab, UserEntries(u, <<Entry(k, m)>>))

\* uid in data and key in data[uid]
HasEntry(tab, u, k) ==
    \E i \in 1..Len(tab) :
        tab[i].uid = u /\ \E j \in 1..Len(tab[i].items) :
                              tab[i].items[j].key = k

\* del data[uid][key]
DelEntry(tab, u, k) ==
    [i \in 1..Len(tab) |->
        IF tab[i].uid = u
        THEN UserEntries(u, SelectSeq(tab[i].items, LAMBDA e : e.key # k))
        ELSE tab[i]]

\* save_json(path, data)
SaveTable(tab) == TableFile("dict", tab)

ChatSites ==
    {[home |-> TRUE, pages |-> <<pg>>,
      product |-> [t \in {"B0000ABC12"} |-> Fetched(<<Gadget>>)]] :
        pg \in {Fetched(<<Widget, Gadget>>), FetchFail}}

\* subscriptions.json and alerts.json at start: both absent or undecodable,
\* or both holding entries
ChatTables ==
    {t \in SubsTables \X AlertTables :
        (t[1].kind = "dict") <=> (t[2].kind = "dict")}

InitChat ==
    /\ program = "full"
    /\ admin = DEFAULT_ADMIN
    /\ store = MissingStore
    /\ \E t \in ChatTables : subs = t[1] /\ alerts = t[2]
    /\ site \in ChatSites
    /\ InitRest

\* one handler call: its name, chat, reply text, what it answered and the
\* conversation state it returned ("raise": it ended with an exception)
Handling(op, u, msg, answer, ret) ==
    [op |-> op, uid |-> u, msg |-> msg, answer |-> answer, ret |-> ret]

\* position of the ConversationHandler op in ConvOrder
ConvIndex(op) == CHOOSE i \in 1..Len(ConvOrder) : ConvOrder[i] = op

\* the conversation of chat u with the handler op is in its waiting state
IsOpen(w, u, op) == u \in w[ConvIndex(op)]

\* ConversationHandler after a callback returned ret for the key u: END
\* removes the key, a state is stored for it, and a callback that raised
\* leaves the conversations as they were
ConvAfter(w, u, op, ret) ==
    IF ret = "END" THEN [w EXCEPT ![ConvIndex(op)] = @ \ {u}]
    ELSE IF ret = "raise" THEN w
    ELSE [w EXCEPT ![ConvIndex(op)] = @ \cup {u}]

\* the entry point of the ConversationHandler op
StartOf(op) == op \o "_start"

\* the ConversationHandler the callback named op belongs to
ConvOf(op) ==
    CHOOSE c \in Range(ConvOrder) : op \in {c, StartOf(c)}

\* the conversations after the callback h.op ended with ret: an entry point
\* opens the conversation of its chat, a state callback acts on the open
\* one
ConvEnded(w, h, ret) ==
    IF h.op \notin Range(ConvOrder) \/ IsOpen(w, h.uid, h.op)
    THEN ConvAfter(w, h.uid, ConvOf(h.op), ret)
    ELSE w

\* the application handles one update after the other: a callback is
\* called only while no other callback is suspended
ChatIdle == pc["chat"] = "idle"

\* the callback op ends for chat u without having reached an await (it
\* raised): hist holds the last call that ended
Handle(op, u, msg, answer, ret) ==
    /\ ChatIdle
    /\ runs["chat"] < MaxCalls
    /\ runs' = [runs EXCEPT !["chat"] = @ + 1]
    /\ hist' = <<Handling(op, u, msg, answer, ret)>>
    /\ work' = [work EXCEPT !["chat"] =
                   ConvEnded(@, Handling(op, u, msg, answer, ret), ret)]
    /\ UNCHANGED <<program, admin, store, store0, site, pc, deals, idx,
                   seenMem, sent>>

\* the callback op has run up to its first await reply_text / answer: it
\* is suspended there with n awaits before its return of ret, and the jobs
\* of the event loop run meanwhile
Suspend(op, u, msg, answer, ret, n) ==
    /\ ChatIdle
    /\ runs["chat"] < MaxCalls
    /\ pc' = [pc EXCEPT !["chat"] = "replying"]
    /\ deals' = [deals EXCEPT !["chat"] =
                    <<Handling(op, u, msg, answer, ret)>>]
    /\ idx' = [idx EXCEPT !["chat"] = n]
    /\ UNCHANGED <<program, admin, store, store0, site, work, seenMem, sent,
                   runs, hist>>

\* the callback suspended at an await
Pending == deals["chat"][1]

\* the awaited reply of the suspended callback returns (ok) or raises: the
\* callback goes on to its next await, or it ends, by its return or by the
\* exception, and the ConversationHandler stores the state it returned
ReplyDone(ok) ==
    /\ program = "full"
    /\ pc["chat"] = "replying"
    /\ IF ok /\ idx["chat"] > 1
       THEN /\ idx' = [idx EXCEPT !["chat"] = @ - 1]
            /\ UNCHANGED <<pc, deals, runs, hist, work>>
       ELSE LET ret == IF ok THEN Pending.ret ELSE "raise"
            IN  /\ idx' = [idx EXCEPT !["chat"] = 0]
                /\ pc' = [pc EXCEPT !["chat"] = "idle"]
                /\ deals' = [deals EXCEPT !["chat"] = <<>>]
                /\ runs' = [runs EXCEPT !["chat"] = @ + 1]
                /\ hist' = <<Handling(Pending.op, Pending.uid, Pending.msg,
                                      Pending.answer, ret)>>
                /\ work' = [work EXCEPT !["chat"] =
                               ConvEnded(@, Pending, ret)]
    /\ UNCHANGED <<program, admin, store, store0, subs, alerts, site,
                   seenMem, sent>>

\* for d in deals[:5]: await update.message.reply_text(...)
SearchReplies(ds) == IF Len(ds) > 5 THEN 5 ELSE Len(ds)

\* bot_full.py search_input
SearchInput(u, msg, env) ==
    /\ program = "full"
    /\ env # "readerror"
    /\ UNCHANGED <<subs, alerts>>
    /\ IF Len(msg) # 2 \/ ~IsDigit(msg[2])
       THEN Suspend("search", u, msg, "Invalid format", "SEARCH", 1)
       ELSE IF IntRaises(msg[2])
       THEN Handle("search", u, msg, None, "raise")
       ELSE LET r == FullScrapeDeals(site, msg[1], IntOf(msg[2]))
            IN  IF ~r.ok
                THEN Handle("search", u, msg, None, "raise")
                ELSE IF r.deals = <<>>
                THEN Suspend("search", u, msg, "No deals found.", "END", 1)
                ELSE Suspend("search", u, msg, "deals", "END",
                             SearchReplies(r.deals))

\* bot_full.py subscribe_input
SubscribeInput(u, msg, env) ==
    /\ program = "full"
    /\ UNCHANGED alerts
    /\ IF Len(msg) # 2 \/ ~IsDigit(msg[2])
       THEN /\ env # "readerror"
            /\ subs' = subs
            /\ Suspend("subscribe", u, msg, "Invalid format", "SUBSCRIBE", 1)
       ELSE IF IntRaises(msg[2]) \/ env = "readerror"
       THEN /\ subs' = subs
            /\ Handle("subscribe", u, msg, None, "raise")
       ELSE /\ subs' = SaveTable(SetEntry(LoadTable(subs), u,
                                          CatLower(msg[1]), IntOf(msg[2])))
            /\ Suspend("subscribe", u, msg, "Subscribed", "END", 1)

\* bot_full.py unsubscribe_input
UnsubscribeInput(u, text, env) ==
    /\ program = "full"
    /\ UNCHANGED alerts
    /\ IF env = "readerror"
       THEN /\ subs' = subs
            /\ Handle("unsubscribe", u, <<text>>, None, "raise")
       ELSE IF HasEntry(LoadTable(subs), u, CatLower(text))
       THEN /\ subs' = SaveTable(DelEntry(LoadTable(subs), u, CatLower(text)))
            /\ Suspend("unsubscribe", u, <<text>>, "Unsubscribed", "END", 1)
       ELSE /\ subs' = subs
            /\ Suspend("unsubscribe", u, <<text>>, "No subscription found",
                       "END", 1)

\* bot_full.py alert_input
AlertInput(u, msg, env) ==
    /\ program = "full"
    /\ UNCHANGED subs
    /\ IF Len(msg) # 2 \/ ~IsDigit(msg[2])
       THEN /\ env # "readerror"
            /\ alerts' = alerts
            /\ Suspend("alert", u, msg, "Invalid format", "ALERT", 1)
       ELSE IF IntRaises(msg[2]) \/ env = "readerror"
       THEN /\ alerts' = alerts
            /\ Handle("alert", u, msg, None, "raise")
       ELSE /\ alerts' = SaveTable(SetEntry(LoadTable(alerts), u, msg[1],
                                            IntOf(msg[2])))
            /\ Suspend("alert", u, msg, "Alert set", "END", 1)

\* the calls of SpecChat: up to MaxRuns of them
ChatSearch(u, msg, env) == Budget /\ SearchInput(u, msg, env)

ChatSubscribe(u, msg, env) == Budget /\ SubscribeInput(u, msg, env)

ChatUnsubscribe(u, text, env) == Budget /\ UnsubscribeInput(u, text, env)

ChatAlert(u, msg, env) == Budget /\ AlertInput(u, msg, env)

NextChat ==
    \/ \E u \in Uids, msg \in CategoryReplies, env \in Envs :
           ChatSearch(u, msg, env)
    \/ \E u \in Uids, msg \in CategoryReplies, env \in Envs :
           ChatSubscribe(u, msg, env)
    \/ \E u \in Uids, text \in UnsubscribeReplies, env \in Envs :
           ChatUnsubscribe(u, text, env)
    \/ \E u \in Uids, msg \in AlertReplies, env \in Envs :
           ChatAlert(u, msg, env)
    \/ \E ok \in BOOLEAN : ReplyDone(ok)

SpecChat == InitChat /\ [][NextChat]_vars

-----------------------------------------------------------------------------
(* SpecConv: the four ConversationHandlers of bot_full.py.  A button of    *)
(* the menu opens a conversation of the chat; a text message of the chat   *)
(* goes to the first handler, in the order main adds them, that has a      *)
(* conversation open for the chat.  Up to MaxCalls updates are dispatched. *)

\* SEARCH, SUBSCRIBE, UNSUBSCRIBE, ALERT = range(4): the one state of each
\* ConversationHandler
StateOf(op) ==
    CASE op = "search" -> "SEARCH"
      [] op = "subscribe" -> "SUBSCRIBE"
      [] op = "unsubscribe" -> "UNSUBSCRIBE"
      [] op = "alert" -> "ALERT"

\* the text messages a chat sends, as their tokens (text.strip().split())
ConvReplies ==
    {<<"electronics", "50">>, <<"toys", "090">>,
     <<"electronics", "abc">>, <<"electronics">>,
     <<"electronics", "50", "now">>, <<"electronics", SuperscriptTwo>>}

\* update.message.text.strip() of a message with the tokens msg
RECURSIVE JoinText(_)
JoinText(msg) ==
    IF Len(msg) = 1 THEN msg[1]
    ELSE msg[1] \o " " \o JoinText(Tail(msg))

InitConv ==
    /\ program = "full"
    /\ admin = DEFAULT_ADMIN
    /\ store = MissingStore
    /\ subs \in {MissingTable,
                 TableFile("dict", <<UserEntries("111",
                              <<Entry("electronics", 90)>>)>>)}
    /\ alerts = MissingTable
    /\ site \in ChatSites
    /\ InitRest

\* search_start / subscribe_start / unsubscribe_start / alert_start: the
\* entry point of the handler op, taken only while the chat has no
\* conversation with that handler.  It awaits callback_query.answer(), then
\* the prompt, and returns its state
ConvStart(u, op) ==
    /\ program = "full"
    /\ ~IsOpen(work["chat"], u, op)
    /\ Suspend(StartOf(op), u, <<>>, "Reply with", StateOf(op), 2)
    /\ UNCHANGED <<subs, alerts>>

\* the handler a text message of chat u is dispatched to: the first one
\* with an open conversation of u, or None
RECURSIVE FirstOpen(_, _, _)
FirstOpen(w, u, i) ==
    IF i > Len(ConvOrder) THEN None
    ELSE IF u \in w[i] THEN ConvOrder[i]
    ELSE FirstOpen(w, u, i + 1)

\* a text message (no command) of chat u
ConvReply(u, msg, env) ==
    LET op == FirstOpen(work["chat"], u, 1)
    IN  \/ op = "search" /\ SearchInput(u, msg, env)
        \/ op = "subscribe" /\ SubscribeInput(u, msg, env)
        \/ op = "unsubscribe" /\ UnsubscribeInput(u, JoinText(msg), env)
        \/ op = "alert" /\ AlertInput(u, msg, env)

NextConv ==
    \/ \E u \in Uids, i \in 1..Len(ConvOrder) : ConvStart(u, ConvOrder[i])
    \/ \E u \in Uids, msg \in ConvReplies, env \in Envs :
           ConvReply(u, msg, env)
    \/ \E ok \in BOOLEAN : ReplyDone(ok)

SpecConv == InitConv /\ [][NextConv]_vars

-----------------------------------------------------------------------------
(* SpecTables: the handlers that write subscriptions.json and alerts.json  *)
(* next to scrape_manual and the two jobs, interleaved at their awaits     *)

InitTables ==
    /\ program = "full"
    /\ admin = DEFAULT_ADMIN
    /\ store = MissingStore
    /\ \E t \in ChatTables : subs = t[1] /\ alerts = t[2]
    /\ site = [home |-> TRUE, pages |-> <<Fetched(<<Widget, Gadget>>)>>,
               product |-> [t \in {"B0000ABC12"} |-> Fetched(<<Gadget>>)]]
    /\ InitRest

\* a handler runs from its start to its first await (or its exception)
\* between two awaits of the jobs
TablesSubscribe(u, n, env) ==
    Budget /\ SubscribeInput(u, <<"electronics", n>>, env)

TablesUnsubscribe(u, env) ==
    Budget /\ UnsubscribeInput(u, "ELECTRONICS", env)

TablesAlert(u, n, env) ==
    Budget /\ AlertInput(u, <<"B0000ABC12", n>>, env)

NextTables ==
    \/ \E u \in Uids, n \in DigitTexts, env \in {"ok", "readerror"} :
           TablesSubscribe(u, n, env)
    \/ \E u \in Uids, env \in {"ok", "readerror"} : TablesUnsubscribe(u, env)
    \/ \E u \in Uids, n \in DigitTexts, env \in {"ok", "readerror"} :
           TablesAlert(u, n, env)
    \/ \E ok \in BOOLEAN : ReplyDone(ok)
    \/ \E user \in FullUsernames : ManualStart(user)
    \/ \E ok \in BOOLEAN : ManualScrape(ok)
    \/ \E ok \in BOOLEAN : ManualSendDone(ok)
    \/ SubsStart
    \/ \E ok \in BOOLEAN : SubsSendDone(ok)
    \/ AlertsStart
    \/ \E ok \in BOOLEAN : AlertsSendDone(ok)

SpecTables == InitTables /\ [][NextTables]_vars

-----------------------------------------------------------------------------
(* Claims about is_new_deal *)

\* C1: for every link L and every initial content of the seen store,
\* consecutive calls of is_new_deal(L) with no other writer in between return
\* true (if L was absent), then false, then false: a call for a link the
\* store does not hold returns true, and once a call has returned true for L
\* every later call for L returns false.
C1_Idempotent ==
    /\ \A i \in 1..Len(hist) :
          hist[i].link \notin StoreLinks(hist[i].before) => hist[i].ret = "true"
    /\ \A i \in 1..Len(hist) : \A j \in 1..Len(hist) :
          (i < j /\ hist[i].link = hist[j].link /\ hist[i].ret = "true")
              => hist[j].ret = "false"

\* C2: is_new_deal(L) leaves the persisted store unchanged when L is already
\* a member, and a call that returns true leaves exactly the previous links
\* plus L in the persisted store.
C2_Frame ==
    \A i \in 1..Len(hist) :
        /\ hist[i].link \in StoreLinks(hist[i].before)
               => hist[i].after = hist[i].before
        /\ hist[i].ret = "true"
               => StoreLinks(hist[i].after)
                     = StoreLinks(hist[i].before) \cup {hist[i].link}

\* the store is missing, unreadable, corrupt or of a shape the program
\* does not write itself
Unusable(prog, st) ==
    \/ st.kind \in {"missing", "corrupt", "nolinks"}
    \/ ~st.readable
    \/ prog = "bot" /\ st.kind = "dict"
    \/ prog = "notify" /\ st.kind = "list"

\* C8: when the backing seen store is missing, unreadable or holds corrupt
\* or unexpected content, is_new_deal treats it as the empty set: it returns
\* true for the link and raises no error.
C8_FailOpen ==
    \A i \in 1..Len(hist) :
        Unusable(program, hist[i].before)
            => /\ hist[i].ret = "true"
               /\ StoreLinks(hist[i].after) = {hist[i].link}

-----------------------------------------------------------------------------
(* Claims about the notification paths *)

\* send attempts for link l
SendsOf(l) == {i \in 1..Len(sent) : sent[i].link = l}

\* the links of a list of deals
DealLinks(ds) == {ds[i].link : i \in 1..Len(ds)}

\* C3: when scrape_command and job_callback run interleaved at their await
\* points and both evaluate a deal with the same link, the check-and-record
\* is atomic per link: each link is sent to the channel at most once over
\* any interleaving, and a link the store did not hold at the start is sent
\* exactly once as soon as one of the two has finished a list that holds it.
C3_AtMostOnce ==
    \A l \in Links :
        /\ Cardinality(SendsOf(l)) <= 1
        /\ (\E p \in BotProcs : pc[p] = "done" /\ l \in DealLinks(deals[p]))
               /\ l \notin StoreLinks(store0)
               => Cardinality(SendsOf(l)) = 1

\* both coroutines are suspended in a send, the job has evaluated the link
\* the command is sending, and that link was sent once
C3_Witness ==
    /\ pc["cmd"] = "sending"
    /\ pc["job"] = "sending"
    /\ LET l == deals["cmd"][idx["cmd"]].link
       IN  /\ l \in DealLinks(SubSeq(deals["job"], 1, idx["job"]))
           /\ Cardinality(SendsOf(l)) = 1
           /\ \E i \in SendsOf(l) : sent[i].by = "cmd"

\* C4: every notification path passes each deal through the seen-set
\* check-and-record before sending: no deal notification is sent for a link
\* that the seen store already contained, and at the end of a cycle every
\* link notified in that cycle is in the persisted seen store.
C4_SoleGate ==
    /\ \A i \in 1..Len(sent) : sent[i].link \notin StoreLinks(store0)
    /\ \A p \in Procs :
          pc[p] = "done" =>
              \A i \in 1..Len(sent) :
                  (sent[i].by = p /\ sent[i].run = runs[p])
                      => sent[i].link \in StoreLinks(store)

\* notifications of job_subscriptions to user u for link l in its run r
SubsSends(u, l, r) ==
    {i \in 1..Len(sent) : /\ sent[i].by = "subsjob" /\ sent[i].to = u
                          /\ sent[i].link = l /\ sent[i].run = r}

\* C5: for a user subscribed to a category with threshold T, a deal of that
\* category with discount >= T that is not in the seen-set produces exactly
\* one notification for that user in the first run of the subscription
\* matcher, and a second run immediately afterwards over the same listing
\* produces no notification for that deal.
C5_MatcherOnce ==
    \A u \in Uids : \A l \in Links :
        /\ Cardinality(SubsSends(u, l, 1)) <= 1
        /\ Cardinality(SubsSends(u, l, 1)) = 1
               => Cardinality(SubsSends(u, l, 2)) = 0

\* C6: in every notification path the link is recorded in the persisted
\* seen store before (or atomically with) the decision to send, so that
\* when a send fails after recording, no later cycle sends a notification
\* for that link again.
\* (stated for the paths that keep a seen store: scrape_command,
\* job_callback, run_and_notify and scrape_manual)
C6_RecordedBeforeSend ==
    LET gated == {i \in 1..Len(sent) :
                     sent[i].by \in {"cmd", "job", "run", "manual"}}
    IN  /\ \A i \in gated : sent[i].link \in StoreLinks(store)
        /\ \A i \in gated : \A j \in gated :
               sent[i].link = sent[j].link => i = j

\* C7: the persisted seen-set grows monotonically: a link that was once
\* persisted in the store is still in it after every later write.
C7_Monotonic == [][StoreLinks(store) \subseteq StoreLinks(store')]_vars

\* the deals of the pages that could be fetched, in order
RECURSIVE SanDealsOfFetched(_, _)
SanDealsOfFetched(pages, i) ==
    IF i > Len(pages) THEN <<>>
    ELSE (IF pages[i].ok THEN SanScrapeCategory(pages[i]).deals ELSE <<>>)
             \o SanDealsOfFetched(pages, i + 1)

RECURSIVE BotDealsOfFetched(_, _)
BotDealsOfFetched(pages, i) ==
    IF i > Len(pages) THEN <<>>
    ELSE (IF pages[i].ok THEN BotItems(pages[i]).deals ELSE <<>>)
             \o BotDealsOfFetched(pages, i + 1)

\* C9: if the fetch of one locator fails during an aggregation over several
\* locators, scrape_deals still returns the deals of all the other locators,
\* in order, and the failure does not abort the aggregation call.
C9_FetchIsolation ==
    /\ runs["run"] >= 1 => deals["run"] = SanDealsOfFetched(site.pages, 1)
    /\ (runs["job"] >= 1 /\ site.home)
           => deals["job"] = BotDealsOfFetched(site.pages, 1)

\* C10: the list returned by one scrape_deals call contains no two deals
\* with the same link.
C10_NoDuplicateLinks ==
    \A p \in Procs : \A i \in 1..Len(deals[p]) : \A j \in 1..Len(deals[p]) :
        deals[p][i].link = deals[p][j].link => i = j


-----------------------------------------------------------------------------
(* Extraction claims (SpecExtract) *)

\* the sale price in cents the program read from the block
ParsedSale(prog, b) ==
    IF prog = "full" THEN SaleWholeOnly(b) ELSE SaleWithFraction(b)

\* floor((orig - sale) / orig * 100), exactly
FloorPercent(sale, orig) == ((orig - sale) * 100) \div orig

\* C11: every candidate whose nodes and price texts are all valid is kept
\* exactly when floor((orig - sale) / orig * 100) >= the threshold in force
\* (inclusive), and the discount reported for a kept candidate is that floor.
C11_ThresholdFloor ==
    \A i \in 1..Len(hist) :
        LET h == hist[i]
        IN  (Len(h.page.blocks) = 1 /\ h.page.blocks[1] \in Candidates) =>
                LET b == h.page.blocks[1]
                    fl == FloorPercent(ParsedSale(program, b), b.orig)
                IN  /\ h.res.ok
                    /\ (Len(h.res.deals) = 1) <=> (fl >= h.min)
                    /\ Len(h.res.deals) = 1 => h.res.deals[1].discount = fl

\* C12: every deal bot_full.py's scrape_category returns, for every
\* min_discount >= 0 (0 included), has a sale price above zero, an original
\* price not below the sale price and a discount within 0..100.
C12_DealRanges ==
    \A i \in 1..Len(hist) :
        program = "full" =>
            \A j \in 1..Len(hist[i].res.deals) :
                LET dl == hist[i].res.deals[j]
                IN  /\ dl.sale > 0
                    /\ dl.orig >= dl.sale
                    /\ dl.discount >= 0 /\ dl.discount <= 100

\* C13: for every candidate with valid whole and fraction texts the sale
\* price used for the discount and shown in the deal is whole + fraction/100
\* (an absent fraction counts as 00).
C13_SaleFromWholeAndFraction ==
    \A i \in 1..Len(hist) :
        LET h == hist[i]
        IN  (Len(h.page.blocks) = 1 /\ h.page.blocks[1] \in Candidates) =>
                LET b == h.page.blocks[1]
                    sale == b.whole * 100 + (IF b.frac = Absent THEN 0
                                             ELSE b.frac)
                IN  \A j \in 1..Len(h.res.deals) :
                        LET dl == h.res.deals[j]
                        IN  IF program = "full"
                            THEN /\ dl.sale = sale
                                 /\ dl.discount = DiscountInt(sale, dl.orig)
                            ELSE /\ dl.sale_price = sale
                                 /\ dl.discount = DiscountInt(sale, dl.orig_price)

\* what one block contributes when it is extracted on its own
BlockDeals(prog, b, min) ==
    LET o == IF prog = "full" THEN BlockFull(b, min)
             ELSE Block90(b, prog = "notify")
    IN  IF o.out = "deal" THEN <<o.deal>> ELSE <<>>

RECURSIVE DealsOfBlocks(_, _, _, _)
DealsOfBlocks(prog, bs, i, min) ==
    IF i > Len(bs) THEN <<>>
    ELSE BlockDeals(prog, bs[i], min) \o DealsOfBlocks(prog, bs, i + 1, min)

\* C14: a block with an unparseable price text, an original price of zero
\* or a missing title, whole part, original price or detail link is skipped
\* alone: the extraction of a page never raises and returns the deals of
\* its other blocks.
C14_BadBlockSkipped ==
    \A i \in 1..Len(hist) :
        LET h == hist[i]
        IN  /\ h.res.ok
            /\ h.res.deals = DealsOfBlocks(program, h.page.blocks, 1, h.min)

-----------------------------------------------------------------------------
(* Category locators (SpecUrls) *)

\* C15: get_category_urls returns no locator for a key outside the category
\* map, exactly one for a known key in any letter case, and one per mapped
\* category (bot_full.py) or listed path (scrape_and_notify.py) when no key
\* is given; every locator ends with sort=price-asc-rank.
C15_CategoryLocators ==
    \A i \in 1..Len(hist) :
        LET h == hist[i]
            known == {"electronics", "Electronics", "ELECTRONICS"}
        IN  /\ program = "full" /\ h.cat \in known => Len(h.urls) = 1
            /\ program = "full" /\ h.cat \notin known \cup {None} =>
                   h.urls = <<>>
            /\ program = "full" /\ h.cat = None =>
                   Len(h.urls) = Cardinality(DOMAIN CATEGORY_MAP)
            /\ program = "notify" => Len(h.urls) = Len(CATEGORY_PATHS)
            /\ \A j \in 1..Len(h.urls) :
                   h.urls[j][Len(h.urls[j])] = "sort=price-asc-rank"

\* an unknown key, a known key in another letter case and no key were all
\* passed to bot_full.py's get_category_urls
C15_Witness ==
    /\ program = "full"
    /\ \E i, j, k \in 1..Len(hist) :
          /\ hist[i].cat = "Toys" /\ hist[i].urls = <<>>
          /\ hist[j].cat = "ELECTRONICS" /\ Len(hist[j].urls) = 1
          /\ hist[k].cat = None /\ Len(hist[k].urls) = 1

-----------------------------------------------------------------------------
(* Conversation handlers and tables (SpecChat) *)

\* a handler call ends in this step, by its return or by an exception
Handles == runs'["chat"] # runs["chat"]

\* a handler is called in this step: it runs up to its first await, or to
\* the exception that ends it before any await
Called ==
    /\ pc["chat"] = "idle"
    /\ pc'["chat"] = "replying" \/ Handles

\* the call made in this step
TheCall == IF pc'["chat"] = "replying" THEN deals'["chat"][1] ELSE hist'[1]

\* the last call is a well-formed "<category> <min_discount>" reply whose
\* category is not a key of the category map
UnknownCategory(h) ==
    /\ h.op \in {"search", "subscribe"}
    /\ Len(h.msg) = 2
    /\ h.msg[2] \in {"50", "090"}
    /\ h.msg[1] \notin {"electronics", "Electronics", "ELECTRONICS"}

\* C16: a search or subscribe reply naming a category that is not in the
\* category map leaves the subscription table unchanged and is answered
\* neither as a success nor as an ordinary empty result.
C16_UnknownCategoryRejected ==
    [][(Called /\ UnknownCategory(TheCall)) =>
           /\ subs' = subs
           /\ TheCall.answer \notin {"Subscribed", "No deals found.", "deals"}
      ]_vars

\* the entries of a table file as a sequence of [uid, key, min]
Rows(t) == Flatten(t.tab)

\* the entries of a table file as a set
RowSet(t) == Range(Rows(t))

\* at most one entry per (uid, key)
OnePerKey(t) ==
    \A i, j \in 1..Len(Rows(t)) :
        (Rows(t)[i].uid = Rows(t)[j].uid /\ Rows(t)[i].key = Rows(t)[j].key)
            => i = j

\* t2 is t1 with the threshold of (u, k) set to m and nothing else changed
Replaced(t1, t2, u, k, m) ==
    RowSet(t2) = {r \in RowSet(t1) : r.uid # u \/ r.key # k}
                     \cup {[uid |-> u, key |-> k, min |-> m]}

\* C17: the subscription table holds at most one threshold per
\* (user, category) and the alert table at most one per (user, target), and
\* setting a key again replaces its threshold and leaves every other entry
\* as it was.
C17_OneThresholdPerKey ==
    /\ [](OnePerKey(subs) /\ OnePerKey(alerts))
    /\ [][(Called /\ TheCall.answer = "Subscribed") =>
              Replaced(subs, subs', TheCall.uid, CatLower(TheCall.msg[1]),
                       IntOf(TheCall.msg[2]))]_vars
    /\ [][(Called /\ TheCall.answer = "Alert set") =>
              Replaced(alerts, alerts', TheCall.uid, TheCall.msg[1],
                       IntOf(TheCall.msg[2]))]_vars
    /\ [][~Called => subs' = subs /\ alerts' = alerts]_vars

\* chat 222 subscribed to electronics again: its threshold 0 became 50 in
\* place, next to its toys entry and the entry of chat 111
C17_Witness ==
    /\ hist # <<>>
    /\ hist[1].op = "subscribe" /\ hist[1].uid = "222"
    /\ hist[1].msg = <<"electronics", "50">>
    /\ subs = TableFile("dict",
                 <<UserEntries("111", <<Entry("electronics", 90)>>),
                   UserEntries("222", <<Entry("electronics", 50),
                                        Entry("toys", 10)>>)>>)

-----------------------------------------------------------------------------
(* Persistence of the tables (SpecTables) *)

\* C19: an entry of subscriptions.json or alerts.json stays in its table
\* with its threshold in every step that is not a subscribe / unsubscribe
\* (for alerts: an alert-set) of the same chat on the same key: no call of
\* another chat, no job or scrape step and no failed read removes it.
C19_EntriesPersist ==
    [][/\ \A r \in RowSet(subs) :
            \/ r \in RowSet(subs')
            \/ /\ Called
               /\ TheCall.uid = r.uid
               /\ TheCall.op \in {"subscribe", "unsubscribe"}
               /\ CatLower(TheCall.msg[1]) = r.key
       /\ \A r \in RowSet(alerts) :
            \/ r \in RowSet(alerts')
            \/ /\ Called
               /\ TheCall.uid = r.uid
               /\ TheCall.op = "alert"
               /\ TheCall.msg[1] = r.key
      ]_vars

\* unsubscribe_input of chat 222 has written the table and waits for its
\* reply while job_subscriptions waits for a send, and the entry of chat
\* 111 is still there
C19_Witness ==
    /\ pc["chat"] = "replying"
    /\ Pending.op = "unsubscribe" /\ Pending.uid = "222"
    /\ Pending.answer = "Unsubscribed"
    /\ pc["subsjob"] = "sending"
    /\ [uid |-> "111", key |-> "electronics", min |-> 90] \in RowSet(subs)
    /\ \A r \in RowSet(subs) : r.uid = "222" => r.key # "electronics"

-----------------------------------------------------------------------------
(* Claims about the jobs of bot_full.py (SpecFull) *)

\* the discount of the item with ASIN a on its product page, or Absent when
\* the page shows no priced block of that item
CurrentDiscount(a) ==
    LET r == FullScrapeCategory(site.product[a], 0)
        own == IF r.ok THEN SelectSeq(r.deals, LAMBDA dl : dl.asin = a)
               ELSE <<>>
    IN  IF own = <<>> THEN Absent ELSE own[1].discount

\* C18: every notification job_alerts sends goes to a chat that holds an
\* alert on the item the notification is about, and that item's current
\* discount is at least the min_drop of that alert.
C18_AlertMatch ==
    \A i \in 1..Len(sent) :
        sent[i].by = "alertjob" =>
            \E r \in RowSet(alerts) :
                /\ r.uid = sent[i].to
                /\ sent[i].link = LinkOf(r.key)
                /\ CurrentDiscount(r.key) >= r.min

\* the deals of category cat at threshold 0, when its listing can be read
CategoryDeals(cat) ==
    IF FullScrapeDeals(site, cat, 0).ok
    THEN Range(FullScrapeDeals(site, cat, 0).deals)
    ELSE {}

\* every notification of job_subscriptions is a deal of a category the
\* chat subscribed to, at or above the chat's threshold for it
SubsSendsMatch ==
    \A i \in 1..Len(sent) :
        sent[i].by = "subsjob" =>
            \E r \in RowSet(subs) :
                /\ r.uid = sent[i].to
                /\ \E dl \in CategoryDeals(r.key) :
                       dl.link = sent[i].link /\ dl.discount >= r.min

\* when a cycle of job_subscriptions has ended, every deal at or above a
\* subscription's threshold was sent to the subscription's chat in it
SubsSendsAll ==
    (runs["subsjob"] > 0 /\ pc["subsjob"] \in {"done", "failed"}) =>
        \A r \in RowSet(subs) :
            \A dl \in CategoryDeals(r.key) :
                dl.discount >= r.min =>
                    \E i \in 1..Len(sent) :
                        /\ sent[i].by = "subsjob"
                        /\ sent[i].run = runs["subsjob"]
                        /\ sent[i].to = r.uid
                        /\ sent[i].link = dl.link

\* C20: every notification job_subscriptions sends to a chat for a category
\* is a deal of that category's listing at or above the chat's own threshold
\* for it, and every such deal of a cycle is sent to that chat.
C20_SubscriptionMatch == SubsSendsMatch /\ SubsSendsAll

-----------------------------------------------------------------------------
(* Claims about the cycles of bot.py and bot_full.py *)

\* the send attempts of p in its current cycle
CycleSends(p) ==
    {k \in 1..Len(sent) : sent[k].by = p /\ sent[k].run = runs[p]}

\* the cycle of p was ended by the exception of the send of deals[p][idx[p]]
SendFailed(p) ==
    /\ pc[p] = "failed"
    /\ idx[p] >= 1
    /\ idx[p] <= Len(deals[p])
    /\ \E k \in CycleSends(p) : sent[k].link = deals[p][idx[p]].link

\* C22: when the send of one deal of a cycle of bot.py has failed, every
\* deal after it in the cycle's list that seen.json does not hold (a new
\* deal) has been attempted in that cycle by the time the cycle is over.
C22_FailedSendContinues ==
    \A p \in BotProcs :
        SendFailed(p) =>
            \A j \in (idx[p] + 1)..Len(deals[p]) :
                \/ deals[p][j].link \in StoreLinks(store)
                \/ \E k \in CycleSends(p) : sent[k].link = deals[p][j].link

\* user is not the configured admin: no admin is configured, the account
\* has no username, or the names differ (Telegram names ignore case)
NotAdmin(user) ==
    \/ admin \in {None, ""}
    \/ user \in {None, ""}
    \/ Lower(user) # Lower(admin)

\* the send attempts of scrape_manual
ManualSends(s) == {k \in 1..Len(s) : s[k].by = "manual"}

\* C23: a scrape_manual requested by a user who is not the configured admin
\* is refused, whatever ADMIN_USERNAME is (unset included) and whatever the
\* username is (absent included), and a refused request announces no deal
\* and leaves seen.json as it is.
C23_NonAdminRefused ==
    /\ [][\A user \in FullUsernames :
             NotAdmin(user) /\ ManualStart(user)
             => pc'["manual"] = "refused"]_vars
    /\ [][pc'["manual"] = "refused"
          => /\ store' = store
             /\ ManualSends(sent') = ManualSends(sent)]_vars

\* the same, for the configurations in which ADMIN_USERNAME is set
NonAdminRefusedWhenConfigured ==
    [][\A user \in FullUsernames :
          admin \notin {None, ""} /\ NotAdmin(user) /\ ManualStart(user)
          => pc'["manual"] = "refused"]_vars

-----------------------------------------------------------------------------
(* Claims about the conversations of bot_full.py *)

\* a call of search_input, subscribe_input or alert_input
InputCall(h) == h.op \in {"search", "subscribe", "alert"}

\* exactly two tokens, the second one all decimal digits
WellFormed(msg) == Len(msg) = 2 /\ msg[2] \in DigitTexts

\* the conversation of the call that ended in this step, after the step
StillOpen == IsOpen(work'["chat"], hist'[1].uid, hist'[1].op)

\* C24: in the search, subscribe and alert conversations a reply that is
\* not two tokens with an all-digit second token writes neither table and
\* its call ends with the conversation still open; a well-formed reply
\* writes at most one of the tables and its call ends with the conversation
\* closed; between the call of a handler and its end no table is written.
C24_ReplyEndsOrStays ==
    /\ [][Called /\ InputCall(TheCall)
          => IF WellFormed(TheCall.msg)
             THEN subs' = subs \/ alerts' = alerts
             ELSE subs' = subs /\ alerts' = alerts]_vars
    /\ [][~Called => subs' = subs /\ alerts' = alerts]_vars
    /\ [][Handles /\ InputCall(hist'[1])
          => IF WellFormed(hist'[1].msg) THEN ~StillOpen ELSE StillOpen]_vars

\* the part of C24 about the replies that are not well-formed
MalformedReplyStays ==
    /\ [][Called /\ InputCall(TheCall) /\ ~WellFormed(TheCall.msg)
          => subs' = subs /\ alerts' = alerts]_vars
    /\ [][Handles /\ InputCall(hist'[1]) /\ ~WellFormed(hist'[1].msg)
          => StillOpen]_vars

\* the part of C24 about well-formed replies, for the calls that return
WellFormedReplyEnds ==
    /\ [][Called /\ InputCall(TheCall) /\ WellFormed(TheCall.msg)
          => subs' = subs \/ alerts' = alerts]_vars
    /\ [][~Called => subs' = subs /\ alerts' = alerts]_vars
    /\ [][/\ Handles
          /\ InputCall(hist'[1])
          /\ WellFormed(hist'[1].msg)
          /\ hist'[1].ret # "raise"
          => ~StillOpen]_vars

-----------------------------------------------------------------------------
(* Claims about the aggregation inside the cycles (SpecCycles) *)

\* the step is the record of one link by is_new_deal of bot.py: the link
\* was not in seen.json, it is the only one added, and it is the link of
\* the send the loop then awaits
BotRecords ==
    \E p \in BotProcs :
        /\ pc'[p] = "sending"
        /\ Len(sent') = Len(sent) + 1
        /\ sent'[Len(sent')].by = p
        /\ sent'[Len(sent')].link \notin StoreLinks(store)
        /\ store'.kind = "list"
        /\ Range(store'.links) =
               StoreLinks(store) \cup {sent'[Len(sent')].link}

\* the step is the save_json at the end of scrape_manual: the file gets the
\* links that were loaded and the links announced in this cycle
ManualSaves ==
    /\ pc["manual"] \in {"replying", "sending"}
    /\ pc'["manual"] = "done"
    /\ store'.kind = "dict"
    /\ \A l \in Range(store'.links) :
          \/ l \in Range(FullLoadSeen(store).links)
          \/ \E k \in 1..Len(sent) :
                /\ sent[k].by = "manual"
                /\ sent[k].run = runs["manual"]
                /\ sent[k].link = l

\* two cycles hold the list of a scrape of the same pages with the same
\* threshold: scrape_command and job_callback of bot.py; scrape_manual and
\* job_subscriptions serving an electronics subscription at threshold 0
SameScrapeTwice ==
    \/ /\ program = "bot"
       /\ deals["cmd"] # <<>>
       /\ deals["job"] # <<>>
    \/ /\ program = "full"
       /\ deals["manual"] # <<>>
       /\ deals["subsjob"] # <<>>
       /\ work["subsjob"] # <<>>
       /\ work["subsjob"][1].key = "electronics"
       /\ work["subsjob"][1].min = 0

\* the other cycle that scraped the same pages
OtherOf(p) ==
    CASE p = "cmd" -> "job"
      [] p = "job" -> "cmd"
      [] p = "manual" -> "subsjob"
      [] p = "subsjob" -> "manual"

=============================================================================
